---- MODULE Spec2Model ----
(***************************************************************************)
(* Weekend Wizard: the agent loop of agent_fun.py (action decoder, bounded *)
(* ReAct loop, reflection pass) and the HTTP retry helper of               *)
(* server_fun.py.                                                          *)
(*                                                                         *)
(* Text is modelled as a sequence of lexemes.  Each lexeme stands for a    *)
(* fixed piece of text:                                                    *)
(*   "{"  "}"   a brace character                                          *)
(*   "f"        the member  "action": "final"                              *)
(*   "t"        the member  "action": "get_weather"   (a registered tool)  *)
(*   "u"        the member  "action": "nope"          (no such tool)       *)
(*   "l"        the member  "action": []              (an unhashable value)*)
(*   "w"        the member  "answer": "hi"                                 *)
(*   "q"        the member  "answer": "}"  (a string holding a brace)      *)
(*   "b"        the member  "answer": "}{"  (a string holding two braces)  *)
(*   "z"        the member  "answer": null                                 *)
(*   "g"        the key     "args":        (a value follows)               *)
(*   "n"        the digits 42 (a JSON number)                              *)
(*   "s"        the JSON string "action"                                   *)
(*   "o"        the JSON string "ok"                                       *)
(*   "L"        the JSON list ["action"]                                   *)
(*   "x"        a word of prose                                            *)
(*   "F"        a code fence (three backquotes)                            *)
(*   "j"        the fence tag json                                         *)
(*   " "        white space                                                *)
(* The separators between the members of an object belong to the member    *)
(* lexemes.                                                                *)
(***************************************************************************)
EXTENDS Integers, Sequences, FiniteSets, TLC

\* ------------------------------------------------------------------ bounds

MaxTxtLen == 3

MaxRepairLen == 2

\* ------------------------------------------------------------- text basics

Alphabet == {"{", "}", "f", "n", "x", "F"}

SimpleMembers == {"f", "t", "u", "l", "w", "q", "b", "z"}

RECURSIVE SeqsUpTo(_, _)
SeqsUpTo(S, n) ==
  IF n = 0 THEN {<< >>}
  ELSE LET shorter == SeqsUpTo(S, n - 1)
       IN shorter \cup {Append(s, c) : s \in {z \in shorter : Len(z) = n - 1}, c \in S}

RECURSIVE SkipWs(_, _)
SkipWs(t, i) == IF i <= Len(t) /\ t[i] = " " THEN SkipWs(t, i + 1) ELSE i

RECURSIVE LastNonWs(_, _)
LastNonWs(t, i) == IF i >= 1 /\ t[i] = " " THEN LastNonWs(t, i - 1) ELSE i

\* str.strip(): leading and trailing white space removed
strip(t) == SubSeq(t, SkipWs(t, 1), LastNonWs(t, Len(t)))

NoWs(t) == SelectSeq(t, LAMBDA c : c # " ")

\* ------------------------------------------------------------- JSON values

Absent == "<absent>"

UnhashableList == "<list []>"

AbsentAnswer == <<Absent>>

\* Python's None (JSON null)
None == <<"<None>">>

EmptyDict == [kind |-> "dict", action |-> Absent, answer |-> AbsentAnswer, args |-> << >>, content |-> ""]

IntVal == [kind |-> "int", action |-> Absent, answer |-> AbsentAnswer, args |-> << >>, content |-> "42"]

StrVal(c) == [kind |-> "str", action |-> Absent, answer |-> AbsentAnswer, args |-> << >>, content |-> c]

ListVal == [kind |-> "list", action |-> Absent, answer |-> AbsentAnswer, args |-> << >>, content |-> "action"]

Fail == [ok |-> FALSE, next |-> 0, val |-> EmptyDict]

\* the dict after one more  key: value  member (a repeated key keeps the last value)
WithMember(acc, m) ==
  CASE m = "f" -> [acc EXCEPT !.action = "final"]
    [] m = "t" -> [acc EXCEPT !.action = "get_weather"]
    [] m = "u" -> [acc EXCEPT !.action = "nope"]
    [] m = "l" -> [acc EXCEPT !.action = UnhashableList]
    [] m = "w" -> [acc EXCEPT !.answer = <<"hi">>]
    [] m = "q" -> [acc EXCEPT !.answer = <<"}">>]
    [] m = "b" -> [acc EXCEPT !.answer = <<"}{">>]
    [] m = "z" -> [acc EXCEPT !.answer = None]

\* adjacent number lexemes are the digits of one number
RECURSIVE SkipNum(_, _)
SkipNum(t, i) == IF i <= Len(t) /\ t[i] = "n" THEN SkipNum(t, i + 1) ELSE i

RECURSIVE ParseValue(_, _)
RECURSIVE ParseMembers(_, _, _)

\* one JSON value starting at lexeme i: [ok, next, val]
ParseValue(t, i) ==
  IF i > Len(t) THEN Fail
  ELSE CASE t[i] = "n" -> [ok |-> TRUE, next |-> SkipNum(t, i), val |-> IntVal]
         [] t[i] = "s" -> [ok |-> TRUE, next |-> i + 1, val |-> StrVal("action")]
         [] t[i] = "o" -> [ok |-> TRUE, next |-> i + 1, val |-> StrVal("ok")]
         [] t[i] = "L" -> [ok |-> TRUE, next |-> i + 1, val |-> ListVal]
         [] t[i] = "{" -> ParseMembers(t, i + 1, EmptyDict)
         [] OTHER -> Fail

\* the members of an object up to its closing brace
ParseMembers(t, i0, acc) ==
  LET i == SkipWs(t, i0) IN
  IF i > Len(t) THEN Fail
  ELSE CASE t[i] = "}" -> [ok |-> TRUE, next |-> i + 1, val |-> acc]
         [] t[i] \in SimpleMembers -> ParseMembers(t, i + 1, WithMember(acc, t[i]))
         [] t[i] = "g" ->
              LET k == SkipWs(t, i + 1)
                  v == ParseValue(t, k)
              IN IF v.ok
                 THEN ParseMembers(t, v.next, [acc EXCEPT !.args = NoWs(SubSeq(t, k, v.next - 1))])
                 ELSE Fail
         [] OTHER -> Fail

\* json.loads: one value, white space around it, nothing else
loads(t) ==
  LET v == ParseValue(t, SkipWs(t, 1))
  IN IF v.ok /\ SkipWs(t, v.next) = Len(t) + 1 THEN v ELSE Fail

\* ------------------------------------------------------------ _extract_json

RECURSIVE FenceClose_NoSpace(_, _)
FenceClose_NoSpace(t, e) ==
  IF e > Len(t) THEN 0
  ELSE IF t[e] = "}" /\ e + 1 <= Len(t) /\ t[e + 1] = "F"
       THEN e
       ELSE FenceClose_NoSpace(t, e + 1)

\* the least e >= i where a closing brace is followed, after white space, by a fence
RECURSIVE FenceClose(_, _)
FenceClose(t, e) ==
  IF e > Len(t) THEN 0
  ELSE IF t[e] = "}" /\ (LET k == SkipWs(t, e + 1) IN k <= Len(t) /\ t[k] = "F")
       THEN e
       ELSE FenceClose(t, e + 1)

\* group 1 of the fence pattern matched with its opening fence at i, << >> if no match
FenceAt(t, i) ==
  IF t[i] # "F" THEN << >>
  ELSE LET a == IF i + 1 <= Len(t) /\ t[i + 1] = "j" THEN i + 2 ELSE i + 1
           b == SkipWs(t, a)
       IN IF b <= Len(t) /\ t[b] = "{"
          THEN LET e == FenceClose(t, b + 1)
               IN IF e = 0 THEN << >> ELSE SubSeq(t, b, e)
          ELSE << >>

\* re.search: the match with the leftmost start
RECURSIVE FenceSearch(_, _)
FenceSearch(t, i) ==
  IF i > Len(t) THEN << >>
  ELSE LET grp == FenceAt(t, i)
       IN IF grp # << >> THEN grp ELSE FenceSearch(t, i + 1)

\* the inner loop of stage 3: where the depth counter returns to zero (0: nowhere);
\* whole is FALSE when that brace is one inside the string of a "q" or "b"
\* lexeme.  The counter counts the braces of strings too: "q" closes one level,
\* "b" closes one and opens it again.  (A span that starts at the opening brace
\* inside "b" never parses and is left out.)
RECURSIVE ScanSpan(_, _, _)
ScanSpan(t, i, depth) ==
  IF i > Len(t) THEN [end |-> 0, whole |-> TRUE]
  ELSE IF t[i] = "{" THEN ScanSpan(t, i + 1, depth + 1)
  ELSE IF t[i] \in {"}", "q", "b"}
       THEN IF depth = 1 THEN [end |-> i, whole |-> t[i] = "}"]
            ELSE ScanSpan(t, i + 1, IF t[i] = "b" THEN depth ELSE depth - 1)
  ELSE ScanSpan(t, i + 1, depth)

\* stage 3: every "{" start in order, the first balanced span of each is tried
RECURSIVE BraceScan(_, _)
BraceScan(t, start) ==
  IF start > Len(t) THEN Fail
  ELSE IF t[start] # "{" THEN BraceScan(t, start + 1)
  ELSE LET sp == ScanSpan(t, start, 0)
           p == IF sp.end # 0 /\ sp.whole THEN loads(SubSeq(t, start, sp.end)) ELSE Fail
       IN IF p.ok THEN p ELSE BraceScan(t, start + 1)

_extract_json(text) ==
  LET t == strip(text)
      direct == loads(t)
      grp == FenceSearch(t, 1)
      fenced == IF grp # << >> THEN loads(grp) ELSE Fail
  IN IF direct.ok THEN direct.val
     ELSE IF fenced.ok THEN fenced.val
     ELSE IF BraceScan(t, 1).ok THEN BraceScan(t, 1).val
     ELSE EmptyDict

\* ------------------------------------------------------------------ llm_json

\* resp["message"]["content"].strip()
_llm_raw(content) == strip(content)

Contains_Truthy(v) ==
  CASE v.kind = "dict" -> v.action # Absent /\ v.action # UnhashableList
    [] v.kind = "str" -> v.content = "action"
    [] v.kind = "list" -> v.content = "action"

\* Python's  "action" in v  for the values json.loads can return
\* (a key of a dict, a substring of a str, an element of a list)
Contains(v) ==
  CASE v.kind = "dict" -> v.action # Absent
    [] v.kind = "str" -> v.content = "action"
    [] v.kind = "list" -> v.content = "action"

\* "action" in v  raises TypeError: v is not iterable
NotIterable(v) == v.kind = "int"

FinalOf(txt) == [EmptyDict EXCEPT !.action = "final", !.answer = txt]

\* [raised, val, repairs]: the exception raised ("" none), the value returned,
\* the number of repair requests issued
llm_json(reply, repair_reply) ==
  LET txt == _llm_raw(reply)
      first == _extract_json(txt)
      second == _extract_json(_llm_raw(repair_reply))
  IN IF NotIterable(first) THEN [raised |-> "TypeError", val |-> first, repairs |-> 0]
     ELSE IF Contains(first) THEN [raised |-> "", val |-> first, repairs |-> 0]
     ELSE IF NotIterable(second) THEN [raised |-> "TypeError", val |-> second, repairs |-> 1]
     ELSE IF Contains(second) THEN [raised |-> "", val |-> second, repairs |-> 1]
     ELSE [raised |-> "", val |-> FinalOf(txt), repairs |-> 1]

\* ------------------------------------------------------- the decoder alone

CuratedReplies ==
  { <<" ", "{", "f", "w", "}", " ">>,
    <<"s">>, <<"o">>, <<"L">>,
    <<"{", "l", "}">>,
    <<"{", "w", "}">>,
    <<"x", "{", "u", "}", "x">>,
    <<"x", "{", "f", "q", "}">>,
    <<"x", "{", "f", "b", "}", "x">>,
    <<"F", "j", " ", "{", "f", "q", "}", " ", "F">>,
    <<"F", "{", "t", "}", "F">>,
    <<"{", "x", "{", "t", "}">>,
    <<"F", "j", " ", "{", "t", "g", "{", "}", "}", " ", "F">> }

Replies == SeqsUpTo(Alphabet, MaxTxtLen) \cup CuratedReplies

RepairReplies == SeqsUpTo(Alphabet, MaxRepairLen) \cup CuratedReplies

NoReply == <<"<none>">>

NoResult == [raised |-> "<pending>", val |-> EmptyDict, repairs |-> 0]

VARIABLES txt, repair, result, dpc

dvars == <<txt, repair, result, dpc>>

VARIABLES script, attempt, last_error, trace, rpc, raised

rvars == <<script, attempt, last_error, trace, rpc, raised>>

VARIABLES pc, user, history, cycles, final_answer, reflected, printed, event, loop_answer, queries

avars == <<pc, user, history, cycles, final_answer, reflected, printed, event, loop_answer, queries>>

\* calls made for the current query
VARIABLES reflections, llm_calls, tool_calls

cvars == <<reflections, llm_calls, tool_calls>>

vars == <<dvars, rvars, avars, cvars>>

DIdle == txt = << >> /\ repair = NoReply /\ result = NoResult /\ dpc = "idle"

NoError == [attempt |-> -1, kind |-> "<none>"]

\* the answer field of an event that is not a final decision
NoAnswer == <<"<no final decision>">>

NoEvent == [kind |-> "<none>", action |-> "<none>", answer |-> NoAnswer]

AIdle ==
  /\ pc = "idle" /\ user = << >> /\ history = << >> /\ cycles = 0
  /\ final_answer = None /\ reflected = NoReply /\ printed = << >>
  /\ event = NoEvent /\ loop_answer = None /\ queries = 0
  /\ reflections = 0 /\ llm_calls = 0 /\ tool_calls = 0

RIdle ==
  /\ script = << >> /\ attempt = 0 /\ last_error = NoError
  /\ trace = << >> /\ rpc = "idle" /\ raised = NoError

DInit ==
  /\ txt \in Replies
  /\ repair = NoReply
  /\ result = NoResult
  /\ dpc = "call"
  /\ RIdle
  /\ AIdle

\* llm_json when the first reply decides it (lines 127-130, no repair)
DecodeDirect ==
  /\ dpc = "call"
  /\ llm_json(txt, NoReply).repairs = 0
  /\ result' = llm_json(txt, NoReply)
  /\ dpc' = "returned"
  /\ UNCHANGED <<txt, repair, rvars, avars, cvars>>

\* llm_json when the first reply has no action: one repair request (lines 130-153)
DecodeRepair ==
  /\ dpc = "call"
  /\ llm_json(txt, NoReply).repairs = 1
  /\ \E rep \in RepairReplies :
       /\ repair' = rep
       /\ result' = llm_json(txt, rep)
  /\ dpc' = "returned"
  /\ UNCHANGED <<txt, rvars, avars, cvars>>

DNext == DecodeDirect \/ DecodeRepair

SpecDecode == DInit /\ [][DNext]_vars

\* --------------------------------------------------------- claims: decoder

\* one of the three extraction stages yields a JSON object
YieldsObject(text) ==
  LET t == strip(text)
      grp == FenceSearch(t, 1)
  IN IF loads(t).ok THEN loads(t).val.kind = "dict"
     ELSE (grp # << >> /\ loads(grp).ok) \/ BraceScan(t, 1).ok

YieldsActionObject(text) == YieldsObject(text) /\ _extract_json(text).action # Absent

\* C3: whatever the model text and the repair response are, llm_json returns,
\* without raising, a mapping that has an "action" key.
C3_DecoderNeverFails ==
  dpc = "returned" =>
    /\ result.raised = ""
    /\ result.val.kind = "dict"
    /\ result.val.action # Absent

\* C6: when no extraction stage yields an object from the model text and the
\* repair response yields no object with an "action" key, llm_json returns
\* {"action": "final", "answer": <the model text>} after exactly one repair
\* request.
C6_FallbackAfterFailedRepair ==
  (/\ dpc = "returned"
   /\ ~YieldsObject(txt)
   /\ (repair = NoReply \/ ~YieldsActionObject(repair))) =>
    result = [raised |-> "", val |-> FinalOf(_llm_raw(txt)), repairs |-> 1]

\* ---------------------------------------------------------- _get_with_retry

max_retries == 3

\* what one GET can end in: a 2xx response, an HTTPError from raise_for_status
\* (429, 404, 500), an HTTPError that carries no response, or another
\* RequestException (connection error, timeout)
Outcomes == {"200", "429", "404", "500", "HTTPError(None)", "ConnectionError"}

IsHTTPError(o) == o \in {"429", "404", "500", "HTTPError(None)"}

\* e.response.status_code if e.response is not None else 0
status(o) ==
  CASE o = "429" -> 429
    [] o = "404" -> 404
    [] o = "500" -> 500
    [] OTHER -> 0

RECURSIVE Pow2(_)
Pow2(n) == IF n = 0 THEN 1 ELSE 2 * Pow2(n - 1)

Backoff_OneTooFar(a) == Pow2(a + 1)

\* time.sleep(2 ** attempt)
Backoff(a) == Pow2(a)

RetryHTTP_AnyStatus(st, a) == st >= 400 /\ a < max_retries - 1

\* line 20
RetryHTTP(st, a) == st = 429 /\ a < max_retries - 1

\* line 26
RetryOther(a) == a < max_retries - 1

Reraised_Earlier(current, last) == last

\* the bare  raise  of lines 24 and 30 re-raises the exception being handled
Reraised(current, last) == current

RInit ==
  /\ script \in [1..max_retries -> Outcomes]
  /\ attempt = 0
  /\ last_error = [attempt |-> -1, kind |-> "RuntimeError"]
  /\ trace = << >>
  /\ rpc = "loop"
  /\ raised = NoError
  /\ DIdle
  /\ AIdle

Outcome == script[attempt + 1]

ErrorNow == [attempt |-> attempt, kind |-> Outcome]

GetEvent == [ev |-> "get", attempt |-> attempt, outcome |-> Outcome, secs |-> 0]

SleepEvent == [ev |-> "sleep", attempt |-> attempt, outcome |-> Outcome, secs |-> Backoff(attempt)]

\* lines 15-17: the GET succeeds, the response is returned
GetOk ==
  /\ rpc = "loop" /\ attempt < max_retries
  /\ Outcome = "200"
  /\ trace' = Append(trace, GetEvent)
  /\ rpc' = "returned"
  /\ UNCHANGED <<script, attempt, last_error, raised, dvars, avars, cvars>>

\* lines 18-23: HTTP 429 before the last attempt: sleep and go round again
HTTPErrorRetry ==
  /\ rpc = "loop" /\ attempt < max_retries
  /\ IsHTTPError(Outcome)
  /\ RetryHTTP(status(Outcome), attempt)
  /\ trace' = trace \o <<GetEvent, SleepEvent>>
  /\ last_error' = ErrorNow
  /\ attempt' = attempt + 1
  /\ UNCHANGED <<script, rpc, raised, dvars, avars, cvars>>

\* lines 18-24: any other HTTP error, or 429 on the last attempt: raise
HTTPErrorRaise ==
  /\ rpc = "loop" /\ attempt < max_retries
  /\ IsHTTPError(Outcome)
  /\ ~RetryHTTP(status(Outcome), attempt)
  /\ trace' = Append(trace, GetEvent)
  /\ raised' = Reraised(ErrorNow, last_error)
  /\ rpc' = "raised"
  /\ UNCHANGED <<script, attempt, last_error, dvars, avars, cvars>>

\* lines 25-29: another RequestException before the last attempt
RequestExceptionRetry ==
  /\ rpc = "loop" /\ attempt < max_retries
  /\ Outcome = "ConnectionError"
  /\ RetryOther(attempt)
  /\ trace' = trace \o <<GetEvent, SleepEvent>>
  /\ last_error' = ErrorNow
  /\ attempt' = attempt + 1
  /\ UNCHANGED <<script, rpc, raised, dvars, avars, cvars>>

\* lines 25-30: another RequestException on the last attempt
RequestExceptionRaise ==
  /\ rpc = "loop" /\ attempt < max_retries
  /\ Outcome = "ConnectionError"
  /\ ~RetryOther(attempt)
  /\ trace' = Append(trace, GetEvent)
  /\ raised' = Reraised(ErrorNow, last_error)
  /\ rpc' = "raised"
  /\ UNCHANGED <<script, attempt, last_error, dvars, avars, cvars>>

\* Line 31 (raise last_error after the loop) is reached only with
\* max_retries = 0; every caller uses the default 3, where the last attempt
\* returns or raises inside the loop.
RNext ==
  \/ GetOk
  \/ HTTPErrorRetry
  \/ HTTPErrorRaise
  \/ RequestExceptionRetry
  \/ RequestExceptionRaise

SpecRetry == RInit /\ [][RNext]_vars

\* ------------------------------------------------- claims: _get_with_retry

NumGets == Cardinality({i \in DOMAIN trace : trace[i].ev = "get"})

Shape(tr) == [i \in DOMAIN tr |-> <<tr[i].ev, tr[i].secs>>]

AllRetryable == \A i \in DOMAIN script : script[i] \in {"429", "ConnectionError"}

\* C7: against a server answering 429, 429, 200 the call returns the 200
\* response of its third GET, having slept 1 before the second GET and 2
\* before the third, and at no other point.
C7_Backoff429Then200 ==
  (script = <<"429", "429", "200">> /\ rpc \notin {"idle", "loop"}) =>
    /\ rpc = "returned"
    /\ Shape(trace) = << <<"get", 0>>, <<"sleep", 1>>, <<"get", 0>>, <<"sleep", 2>>, <<"get", 0>> >>
    /\ trace[5].outcome = "200" /\ trace[5].attempt = 2

C7_Witness ==
  script = <<"429", "429", "200">> /\ rpc = "returned" /\ NumGets = 3

\* C8: a GET that ends in an HTTP error status other than 429 (404, 500) is
\* the last event of the call, on whichever attempt: the call has raised that
\* very error, with no sleep and no further GET after it.
C8_OtherStatusPropagates ==
  \A i \in DOMAIN trace :
    (trace[i].ev = "get" /\ status(trace[i].outcome) >= 400 /\ status(trace[i].outcome) # 429) =>
      /\ i = Len(trace)
      /\ rpc = "raised"
      /\ raised = [attempt |-> trace[i].attempt, kind |-> trace[i].outcome]

C8_Witness ==
  rpc = "raised" /\ raised = [attempt |-> 1, kind |-> "500"] /\ NumGets = 2

\* C9: a call makes at most 3 GETs; when all attempts end in 429 or a network
\* exception the call raises the error of the third attempt, and its last
\* event is that GET (no sleep follows it).
C9_AtMostThreeRaisesLast ==
  /\ NumGets <= 3
  /\ (AllRetryable /\ rpc \notin {"idle", "loop"}) =>
       /\ rpc = "raised"
       /\ NumGets = 3
       /\ raised = [attempt |-> 2, kind |-> script[3]]
       /\ trace[Len(trace)].ev = "get"
       /\ Cardinality({i \in DOMAIN trace : trace[i].ev = "sleep"}) = 2

C9_Witness ==
  rpc = "raised" /\ AllRetryable /\ script[2] # script[3] /\ NumGets = 3

\* ------------------------------------------------------- the agent (main)

MaxQueries == 2

\* tool calls that raise, and requests for a tool that does not exist, per query
MaxToolErrors == 1

MaxBadNames == 1

MAX_STEPS == 8

\* the tools server_fun.py registers, as session.list_tools() returns them
tool_index == {"get_weather", "city_to_coords", "book_recs", "random_joke", "random_dog", "trivia"}

Fallback == <<"I reached the step limit. Please try a simpler or more specific prompt.">>

Sentinels == { <<"exit">>, <<"quit">>, <<"bye">> }

\* str.lower(), lexeme by lexeme
LowerLex(c) ==
  CASE c = "Looks" -> "looks"
    [] c = "Good" -> "good"
    [] c = "Exit" -> "exit"
    [] OTHER -> c

lower(t) == [i \in DOMAIN t |-> LowerLex(t[i])]

\* the lines the user may type
Inputs ==
  { << >>, <<" ">>, <<"exit">>, <<" ", "Exit">>, <<"quit">>, <<"bye">>,
    <<" ", "plan", " ">>, <<"bye", " ", "plan">> }

\* line 224
Quits(u) == u = << >> \/ lower(u) \in Sentinels

\* what the model may answer to a decision request or a repair request
ModelReplies ==
  { <<"{", "f", "w", "}">>,
    <<"{", "f", "}">>,
    <<"{", "f", "z", "}">>,
    <<" ", "{", "t", "}", " ">>,
    <<"F", "j", "{", "t", "g", "{", "}", "}", "F">>,
    <<"x", "{", "u", "}">>,
    <<"{", "l", "}">>,
    <<"n">>, <<"s">>, <<"L">>, <<"x">> }

\* what llm_json(history) can come back with
Decisions == {llm_json(r, p) : r \in ModelReplies, p \in ModelReplies}

\* what the model may answer to the reflection request
ReflectReplies ==
  { <<"looks", " ", "good">>,
    <<"Looks", " ", "Good", " ">>,
    <<"looks", " ", " ", "good">>,
    <<"looks", "good">>,
    <<"looks", " ", "good", " ", "plan">>,
    <<"plan">>,
    << >> }

Msg(r, c) == [role |-> r, content |-> c]

SystemMsg == Msg("system", <<"SYSTEM">>)

\* json.dumps(decision)
DecisionMsg(tname) == Msg("assistant", <<"decision", tname>>)

\* lines 251-258
CorrectiveMsg(tname) ==
  Msg("user", <<"Tool", tname, "does not exist. Available tools:", "get_weather", "city_to_coords",
                "book_recs", "random_joke", "random_dog", "trivia">>)

\* line 266
ResultPayload == "result.content[0].text"

\* line 268
ErrorPayload == "{\"error\": str(exc)}"

\* line 271
ObservationMsg(tname, payload) == Msg("user", <<"Result of", tname, payload>>)

LoopContinues_OneMore(c) == c <= MAX_STEPS

\* for _step in range(MAX_STEPS)
LoopContinues(c) == c < MAX_STEPS

\* decision.get("answer", "")
AnswerOf(d) == IF d.answer = AbsentAnswer THEN << >> ELSE d.answer

AfterLoop_NoFallback(fa) == fa

\* lines 273-274
AfterLoop(fa) == IF fa = None THEN Fallback ELSE fa

OnToolException_Abort(h, tname) == h

\* lines 267-271 after call_tool raised
OnToolException(h, tname) == h \o <<DecisionMsg(tname), ObservationMsg(tname, ErrorPayload)>>

OnToolResult_ObservationOnly(h, tname) == Append(h, ObservationMsg(tname, ResultPayload))

\* lines 265-266, 270-271 after call_tool returned
OnToolResult(h, tname) == h \o <<DecisionMsg(tname), ObservationMsg(tname, ResultPayload)>>

\* lines 250-258
OnNoSuchTool(h, tname) == h \o <<DecisionMsg(tname), CorrectiveMsg(tname)>>

LooksGood_CaseSensitive(r) == strip(r) = <<"looks", " ", "good">>

\* reflected.lower().strip() == "looks good"
LooksGood(r) == strip(lower(r)) = <<"looks", " ", "good">>

\* lines 278-279
AfterReflection(fa, r) == IF ~LooksGood(r) THEN r ELSE fa

IsErrorObservation(m) ==
  m.role = "user" /\ Len(m.content) = 3 /\ m.content[1] = "Result of" /\ m.content[3] = ErrorPayload

IsCorrective(m) == m.role = "user" /\ Len(m.content) > 3 /\ m.content[1] = "Tool"

NumToolErrors(h) == Cardinality({i \in DOMAIN h : IsErrorObservation(h[i])})

NumBadNames(h) == Cardinality({i \in DOMAIN h : IsCorrective(h[i])})

FreshHistory_Carried(h, u) ==
  IF h = << >> THEN <<SystemMsg, Msg("user", u)>> ELSE Append(h, Msg("user", u))

\* lines 228-231: the history of a query, whatever the history h before it
FreshHistory(h, u) == <<SystemMsg, Msg("user", u)>>

AfterPrint_ReflectAgain(r) == IF LooksGood(r) THEN "prompt" ELSE "reflect"

\* lines 281-285, 217-219: the answer is printed and the prompt comes back,
\* whatever the reflection response was
AfterPrint(r) == "prompt"

AInit ==
  /\ pc = "prompt" /\ user = << >> /\ history = << >> /\ cycles = 0
  /\ final_answer = None /\ reflected = NoReply /\ printed = << >>
  /\ event = NoEvent /\ loop_answer = None /\ queries = 0
  /\ reflections = 0 /\ llm_calls = 0 /\ tool_calls = 0
  /\ DIdle /\ RIdle

\* main has returned: its locals are gone
Returned(how, line) ==
  /\ pc' = "ended" /\ user' = line /\ history' = << >> /\ cycles' = 0
  /\ final_answer' = None /\ reflected' = NoReply /\ printed' = << >>
  /\ event' = [kind |-> how, action |-> "<none>", answer |-> NoAnswer] /\ loop_answer' = None
  /\ reflections' = 0 /\ llm_calls' = 0 /\ tool_calls' = 0
  /\ UNCHANGED <<queries, dvars, rvars>>

\* lines 218-222, 287-289: end of input or an interrupt at the prompt
InputEnds ==
  /\ pc = "prompt"
  /\ Returned("end_of_input", << >>)

\* lines 219, 224-225, 287-289: an empty line or exit / quit / bye
InputQuits ==
  /\ pc = "prompt"
  /\ \E line \in Inputs : Quits(strip(line)) /\ Returned("break", strip(line))

\* lines 219, 224-234: any other line starts a query with a fresh history
StartQuery ==
  /\ pc = "prompt"
  /\ queries < MaxQueries
  /\ \E line \in Inputs :
       /\ ~Quits(strip(line))
       /\ user' = strip(line)
       /\ history' = FreshHistory(history, strip(line))
  /\ final_answer' = None
  /\ cycles' = 0
  /\ reflected' = NoReply
  /\ printed' = << >>
  /\ event' = NoEvent
  /\ loop_answer' = None
  /\ queries' = queries + 1
  /\ reflections' = 0 /\ llm_calls' = 0 /\ tool_calls' = 0
  /\ pc' = "loop"
  /\ UNCHANGED <<dvars, rvars>>

IsDecision(d) == d.raised = "" /\ d.val.kind = "dict"

CallsOf_RepairTwice(d) == 1 + 2 * d.repairs

\* the chat calls of one llm_json: line 127 and, for a repair, line 147
CallsOf(d) == 1 + d.repairs

\* The queries explored have repair requests or faults (a tool call that
\* raises, a request for a tool that does not exist), not both: a repaired
\* decision is taken while the history holds no fault, and a fault follows
\* unrepaired decisions only.
NoFaultYet == NumToolErrors(history) = 0 /\ NumBadNames(history) = 0

Offered(d) == d.repairs = 0 \/ NoFaultYet

OfferedFault(d) == d.repairs = 0 /\ llm_calls = cycles

\* lines 238-243 and 273-274: the decision is final, the loop is left
StepFinal ==
  /\ pc = "loop" /\ LoopContinues(cycles)
  /\ \E d \in Decisions :
       /\ IsDecision(d) /\ d.val.action = "final"
       /\ Offered(d)
       /\ final_answer' = AfterLoop(AnswerOf(d.val))
       /\ loop_answer' = AfterLoop(AnswerOf(d.val))
       /\ llm_calls' = llm_calls + CallsOf(d)
       /\ event' = [kind |-> "final", action |-> "final", answer |-> AnswerOf(d.val)]
  /\ cycles' = cycles + 1
  /\ pc' = "reflect"
  /\ UNCHANGED <<user, history, reflected, printed, queries, reflections, tool_calls, dvars, rvars>>

\* lines 238-260: the action names no registered tool
StepNoSuchTool ==
  /\ pc = "loop" /\ LoopContinues(cycles)
  /\ \E d \in Decisions :
       /\ IsDecision(d) /\ d.val.action # "final"
       /\ d.val.action # UnhashableList
       /\ d.val.action \notin tool_index
       /\ NumBadNames(history) < MaxBadNames /\ OfferedFault(d)
       /\ history' = OnNoSuchTool(history, d.val.action)
       /\ llm_calls' = llm_calls + CallsOf(d)
       /\ event' = [kind |-> "no_such_tool", action |-> d.val.action, answer |-> NoAnswer]
  /\ cycles' = cycles + 1
  /\ UNCHANGED <<pc, user, final_answer, reflected, printed, loop_answer, queries, reflections, tool_calls, dvars, rvars>>

\* lines 238-271: a registered tool is called and returns
StepToolReturns ==
  /\ pc = "loop" /\ LoopContinues(cycles)
  /\ \E d \in Decisions :
       /\ IsDecision(d) /\ d.val.action \in tool_index
       /\ Offered(d)
       /\ history' = OnToolResult(history, d.val.action)
       /\ llm_calls' = llm_calls + CallsOf(d)
       /\ event' = [kind |-> "tool_returned", action |-> d.val.action, answer |-> NoAnswer]
  /\ cycles' = cycles + 1
  /\ tool_calls' = tool_calls + 1
  /\ UNCHANGED <<pc, user, final_answer, reflected, printed, loop_answer, queries, reflections, dvars, rvars>>

\* lines 238-271: a registered tool is called and the call raises
StepToolRaises ==
  /\ pc = "loop" /\ LoopContinues(cycles)
  /\ \E d \in Decisions :
       /\ IsDecision(d) /\ d.val.action \in tool_index
       /\ NumToolErrors(history) < MaxToolErrors /\ OfferedFault(d)
       /\ history' = OnToolException(history, d.val.action)
       /\ llm_calls' = llm_calls + CallsOf(d)
       /\ event' = [kind |-> "tool_raised", action |-> d.val.action, answer |-> NoAnswer]
  /\ cycles' = cycles + 1
  /\ tool_calls' = tool_calls + 1
  /\ UNCHANGED <<pc, user, final_answer, reflected, printed, loop_answer, queries, reflections, dvars, rvars>>

\* line 238: llm_json raises TypeError ("action" not in <a number>); the
\* exception leaves main through the finally clause
StepDecodeRaises ==
  /\ pc = "loop" /\ LoopContinues(cycles)
  /\ \E d \in Decisions :
       /\ d.raised # "" /\ Offered(d)
       /\ llm_calls' = llm_calls + CallsOf(d)
       /\ event' = [kind |-> d.raised, action |-> "<no decision>", answer |-> NoAnswer]
  /\ cycles' = cycles + 1
  /\ pc' = "crashed"
  /\ UNCHANGED <<user, history, final_answer, reflected, printed, loop_answer, queries, reflections, tool_calls, dvars, rvars>>

\* line 241: llm_json returned a str or a list, decision.get raises AttributeError
StepNotAMapping ==
  /\ pc = "loop" /\ LoopContinues(cycles)
  /\ \E d \in Decisions :
       /\ d.raised = "" /\ d.val.kind # "dict" /\ Offered(d)
       /\ llm_calls' = llm_calls + CallsOf(d)
       /\ event' = [kind |-> "AttributeError", action |-> "<no decision>", answer |-> NoAnswer]
  /\ cycles' = cycles + 1
  /\ pc' = "crashed"
  /\ UNCHANGED <<user, history, final_answer, reflected, printed, loop_answer, queries, reflections, tool_calls, dvars, rvars>>

\* line 249: the action is a list,  tname not in tool_index  raises TypeError
\* (unhashable type)
StepUnhashableAction ==
  /\ pc = "loop" /\ LoopContinues(cycles)
  /\ \E d \in Decisions :
       /\ IsDecision(d) /\ d.val.action = UnhashableList /\ Offered(d)
       /\ llm_calls' = llm_calls + CallsOf(d)
       /\ event' = [kind |-> "TypeError", action |-> d.val.action, answer |-> NoAnswer]
  /\ cycles' = cycles + 1
  /\ pc' = "crashed"
  /\ UNCHANGED <<user, history, final_answer, reflected, printed, loop_answer, queries, reflections, tool_calls, dvars, rvars>>

\* lines 237, 273-274: the range is used up with no final decision
StepsExhausted ==
  /\ pc = "loop" /\ ~LoopContinues(cycles)
  /\ final_answer' = AfterLoop(final_answer)
  /\ loop_answer' = AfterLoop(final_answer)
  /\ event' = [kind |-> "exhausted", action |-> "<none>", answer |-> NoAnswer]
  /\ pc' = "reflect"
  /\ UNCHANGED <<user, history, cycles, reflected, printed, queries, cvars, dvars, rvars>>

\* lines 277-285: the reflection call, the answer is printed
Reflect ==
  /\ pc = "reflect"
  /\ \E reply \in ReflectReplies :
       /\ reflected' = _llm_raw(reply)
       /\ final_answer' = AfterReflection(final_answer, _llm_raw(reply))
       /\ printed' = Append(printed, AfterReflection(final_answer, _llm_raw(reply)))
  /\ reflections' = reflections + 1
  /\ llm_calls' = llm_calls + 1
  /\ pc' = AfterPrint(reflected')
  /\ UNCHANGED <<user, history, cycles, event, loop_answer, queries, tool_calls, dvars, rvars>>

Next ==
  \/ InputEnds
  \/ InputQuits
  \/ StartQuery
  \/ StepFinal
  \/ StepNoSuchTool
  \/ StepToolReturns
  \/ StepToolRaises
  \/ StepDecodeRaises
  \/ StepNotAMapping
  \/ StepUnhashableAction
  \/ StepsExhausted
  \/ Reflect

Spec == AInit /\ [][Next]_vars

\* ------------------------------------------------------ claims: the agent

LastTwo(h) == SubSeq(h, Len(h) - 1, Len(h))

\* the response, lower-cased and trimmed, is the sentinel
MatchesSentinel(r) ==
  LET low == [i \in DOMAIN r |-> LowerLex(r[i])]
  IN SubSeq(low, SkipWs(low, 1), LastNonWs(low, Len(low))) = <<"looks", " ", "good">>

\* runs of white space count as one, white space at the ends does not count
RECURSIVE CollapseWs(_)
CollapseWs(t) ==
  IF t = << >> THEN << >>
  ELSE IF Head(t) = " " /\ (Len(t) = 1 \/ t[2] = " ") THEN CollapseWs(Tail(t))
  ELSE <<Head(t)>> \o CollapseWs(Tail(t))

MatchesSentinelAnyWs(r) ==
  LET low == [i \in DOMAIN r |-> LowerLex(r[i])]
      c == CollapseWs(low)
  IN SubSeq(c, SkipWs(c, 1), Len(c)) = <<"looks", " ", "good">>

\* C1: a query makes at most MAX_STEPS = 8 calls of llm_json.
C1_AtMostMaxSteps == cycles <= MAX_STEPS

C1_Witness == pc = "loop" /\ cycles = MAX_STEPS /\ Len(history) = 2 + 2 * MAX_STEPS

\* C2 as claimed: after MAX_STEPS steps with no final decision the answer
\* printed for the query is the fallback string.
C2_FallbackPrinted ==
  (event.kind = "exhausted" /\ printed # << >>) => printed = <<Fallback>>

\* C2, amended: after MAX_STEPS steps with no final decision the answer the
\* loop hands to the reflection pass is the fallback string; what is printed is
\* that string when the reflection response is the sentinel, and the
\* reflection response otherwise.
C2_FallbackBeforeReflection ==
  event.kind = "exhausted" =>
    /\ cycles = MAX_STEPS
    /\ loop_answer = Fallback
    /\ (pc = "reflect" => final_answer = Fallback)
    /\ (printed # << >> =>
          printed = <<IF MatchesSentinel(reflected) THEN Fallback ELSE reflected>>)

C2_Witness ==
  event.kind = "exhausted" /\ printed = <<Fallback>> /\ reflected = <<"Looks", " ", "Good">>

\* C4: right after a step whose tool call raised, the loop is still running
\* (at its head: the next step or the step-limit exit follows), and that step
\* appended exactly the assistant decision and an observation carrying the
\* error payload.
C4_ToolExceptionObserved ==
  event.kind = "tool_raised" =>
    /\ pc = "loop"
    /\ event.action \in tool_index
    /\ Len(history) = 2 + 2 * cycles
    /\ LastTwo(history) = << [role |-> "assistant", content |-> <<"decision", event.action>>],
                             [role |-> "user", content |-> <<"Result of", event.action, ErrorPayload>>] >>

C4_Witness == event.kind = "tool_raised" /\ cycles = MAX_STEPS /\ pc = "loop"

C10_WhitespaceInsensitive ==
  printed # << >> =>
    printed = <<IF MatchesSentinelAnyWs(reflected) THEN loop_answer ELSE reflected>>

\* C10, amended: the loop's answer is printed when the reflection response,
\* lower-cased and with the white space at its ends removed, is "looks good"
\* (white space inside it counts); the response is printed otherwise.
C10_TrimmedCaseInsensitive ==
  printed # << >> =>
    printed = <<IF MatchesSentinel(reflected) THEN loop_answer ELSE reflected>>

C10_Witness ==
  /\ printed = <<loop_answer>> /\ loop_answer = <<"hi">>
  /\ reflected = <<"Looks", " ", "Good">>

C12_EmptyLineIgnored ==
  (pc = "ended" /\ event.kind = "break") => lower(user) \in Sentinels

\* C13: when the model text is itself (white space around it aside) the text
\* of a JSON object that has an "action" key, llm_json returns that object,
\* so the same "action" value, and issues no repair request.
C13_DirectParseLossless ==
  (/\ dpc = "returned"
   /\ loads(txt).ok
   /\ loads(txt).val.kind = "dict"
   /\ loads(txt).val.action # Absent)
  => /\ result.raised = ""
     /\ result.val = loads(txt).val
     /\ result.val.action = loads(txt).val.action
     /\ result.repairs = 0
     /\ repair = NoReply

C13_Witness ==
  /\ dpc = "returned"
  /\ txt # strip(txt)
  /\ loads(txt).ok /\ loads(txt).val.kind = "dict"
  /\ loads(txt).val.action = "final" /\ loads(txt).val.answer # AbsentAnswer
  /\ result.val = loads(txt).val

\* the braces of t[i..j], counted character by character as line 101-104 count
\* them, open and close in a well-nested way
RECURSIVE WellNested(_, _, _, _)
WellNested(t, i, j, depth) ==
  IF i > j THEN depth = 0
  ELSE IF t[i] = "{" THEN WellNested(t, i + 1, j, depth + 1)
  ELSE IF t[i] \in {"}", "q"} THEN depth >= 1 /\ WellNested(t, i + 1, j, depth - 1)
  ELSE IF t[i] = "b" THEN depth >= 1 /\ WellNested(t, i + 1, j, depth)
  ELSE WellNested(t, i + 1, j, depth)

\* the balanced {...} substrings of t that are valid JSON
ObjectSpans(t) ==
  { s \in (1..Len(t)) \X (1..Len(t)) :
      /\ s[1] <= s[2]
      /\ t[s[1]] = "{" /\ t[s[2]] = "}"
      /\ WellNested(t, s[1], s[2], 0)
      /\ loads(SubSeq(t, s[1], s[2])).ok }

TheObject(t) ==
  LET s == CHOOSE s \in ObjectSpans(t) : TRUE
  IN loads(SubSeq(t, s[1], s[2])).val

\* C14: from a text that holds exactly one balanced {...} substring that is
\* valid JSON, whatever prose and stray braces surround it, _extract_json
\* returns that object.
C14_SingleObjectRecovered ==
  (dpc = "returned" /\ Cardinality(ObjectSpans(txt)) = 1)
  => _extract_json(txt) = TheObject(txt)

\* the text between an opening fence, with or without the tag json, and the
\* closing fence
Unfenced(t) ==
  IF Len(t) >= 2 /\ t[1] = "F" /\ t[Len(t)] = "F"
  THEN SubSeq(t, IF t[2] = "j" THEN 3 ELSE 2, Len(t) - 1)
  ELSE << >>

FencedObject(t) == loads(Unfenced(t)).ok /\ loads(Unfenced(t)).val.kind = "dict"

NumAssistant(h) == Cardinality({i \in DOMAIN h : h[i].role = "assistant"})

\* C16: a query starts with a history of exactly two messages, the system
\* prompt and the text of that query; its history never holds more assistant
\* messages than the query has made steps, so none of an earlier query.
C16_FreshHistoryPerQuery ==
  pc \in {"loop", "reflect"} =>
    /\ user # << >>
    /\ Len(history) >= 2
    /\ history[1] = SystemMsg
    /\ history[2] = Msg("user", user)
    /\ (cycles = 0 => Len(history) = 2)
    /\ NumAssistant(history) <= cycles
    /\ \A i \in 3..Len(history) :
         \/ history[i].role = "assistant"
         \/ IsCorrective(history[i])
         \/ (history[i].role = "user" /\ history[i].content[1] = "Result of")

C16_Witness ==
  /\ queries = 2 /\ pc = "loop" /\ cycles = 0
  /\ history = <<SystemMsg, Msg("user", <<"bye", " ", "plan">>)>>

\* the steps of the current query that ran to their end without a final
\* decision: every step counted by cycles but a last one that was final or
\* that raised out of main
CompletedNonFinal ==
  IF event.kind \in {"final", "TypeError", "AttributeError"} THEN cycles - 1 ELSE cycles

\* C17: while a query is processed its history has 2 + 2k messages, k the
\* number of completed non-final steps: each such step (tool result, tool
\* exception, no such tool) appended one assistant message and then one user
\* message, and the step of the final decision appended nothing.
C17_HistoryGrowsByTwo ==
  history # << >> =>
    /\ Len(history) = 2 + 2 * CompletedNonFinal
    /\ \A k \in 1..CompletedNonFinal :
         /\ history[2 * k + 1].role = "assistant"
         /\ history[2 * k + 2].role = "user"
    /\ (event.kind \in {"tool_returned", "tool_raised", "no_such_tool"} =>
          /\ LastTwo(history)[1] = DecisionMsg(event.action)
          /\ LastTwo(history)[2].content[2] = event.action)

C17_Witness ==
  /\ pc = "reflect" /\ event.kind = "final" /\ cycles = 4
  /\ Len(history) = 8
  /\ NumToolErrors(history) = 1 /\ NumBadNames(history) = 1

\* C18: a step that decodes the action "final" leaves the loop at once, with
\* no tool call and no further cycle, and the answer of the loop is the
\* "answer" value of that decision (the empty string when the field is
\* absent), never the step-limit message put in its place.
C18_FinalAnswerKept ==
  event.kind = "final" =>
    /\ pc \in {"reflect", "prompt"}
    /\ tool_calls = cycles - 1 - NumBadNames(history)
    /\ loop_answer = event.answer

\* C19: a query that is no longer running has printed exactly one answer,
\* whatever the decisions and the reflection response were.
C19_QueryPrintsOneAnswer ==
  (history # << >> /\ pc \notin {"loop", "reflect"}) => Len(printed) = 1

\* C20: a decode issues at most one repair request, so a query makes at most
\* two model calls per step made and one reflection call, 2 * MAX_STEPS + 1 = 17
\* in all, and at most one tool call per step, MAX_STEPS in all.
C20_CallBudget ==
  /\ reflections <= 1
  /\ llm_calls <= 2 * cycles + reflections
  /\ llm_calls <= 2 * MAX_STEPS + 1
  /\ llm_calls >= cycles + reflections
  /\ tool_calls <= cycles
  /\ tool_calls <= MAX_STEPS

C20_Witness ==
  /\ llm_calls = 2 * MAX_STEPS + 1
  /\ tool_calls = MAX_STEPS
  /\ reflections = 1
  /\ Len(printed) = 1

====
